---- MODULE Spec2Model ----
(***************************************************************************)
(* Model of the counter plugin of astrbot_plugin_counter (src/main.py):    *)
(* the counter table, its two case-insensitive indexes, the JSON document  *)
(* on disk, the asyncio lock, and the handlers cnt (add / del / list),     *)
(* on_any_message and terminate, each cut at its suspension points.        *)
(* Strings are sequences of one-character strings.                         *)
(***************************************************************************)
EXTENDS Integers, Sequences, FiniteSets, TLC

\* ------------------------------------------------------------------ bounds
\* Largest count a counter reaches (messages that would go further are not
\* delivered).
MaxCount == 2
\* Largest number of aliases in one add command.
MaxAliases == 2
\* Handler invocations that can be in flight at once.
Tasks == {"h1", "h2"}

\* ----------------------------------------------------------------- strings
Whitespace == {" "}

\* str.casefold(), on the characters the model uses
casefold_char(c) ==
    CASE c = "A" -> "a"
      [] c = "C" -> "c"
      [] c = "N" -> "n"
      [] c = "T" -> "t"
      [] OTHER -> c

casefold(s) == [i \in 1..Len(s) |-> casefold_char(s[i])]

RECURSIVE lstrip(_)
lstrip(s) == IF s # <<>> /\ Head(s) \in Whitespace THEN lstrip(Tail(s)) ELSE s

RECURSIVE rstrip(_)
rstrip(s) ==
    IF s # <<>> /\ s[Len(s)] \in Whitespace
    THEN rstrip(SubSeq(s, 1, Len(s) - 1))
    ELSE s

\* str.strip()
strip(s) == rstrip(lstrip(s))

\* CounterStarPlugin._norm
norm(text) == casefold(strip(text))

\* Python's `p in t` on strings
Contains(p, t) ==
    \E i \in 0..(Len(t) - Len(p)) : SubSeq(t, i + 1, i + Len(p)) = p

\* str.startswith
startswith(s, prefix) ==
    Len(s) >= Len(prefix) /\ SubSeq(s, 1, Len(prefix)) = prefix

\* str.split(): the maximal runs of non-whitespace characters
RECURSIVE split(_)
split(s) ==
    LET t == lstrip(s) IN
    IF t = <<>> THEN <<>>
    ELSE LET k == CHOOSE j \in 1..Len(t) :
                      /\ \A i \in 1..j : t[i] \notin Whitespace
                      /\ (j = Len(t) \/ t[j + 1] \in Whitespace)
         IN <<SubSeq(t, 1, k)>> \o split(SubSeq(t, k + 1, Len(t)))

\* CounterStarPlugin._split_parts
split_parts(msg) == split(strip(msg))

RECURSIVE match_route(_, _)
\* the loop of _extract_args_after: the parts left after the route, or <<>>
match_route(parts, route) ==
    IF route = <<>> THEN parts
    ELSE IF parts = <<>> \/ norm(Head(parts)) # norm(Head(route)) THEN <<>>
    ELSE match_route(Tail(parts), Tail(route))

\* CounterStarPlugin._extract_args_after
extract_args_after(message_str, route) ==
    LET parts == split_parts(message_str) IN
    IF parts = <<>> THEN <<>>
    ELSE LET p0 == IF startswith(parts[1], <<"/">>) THEN Tail(parts[1]) ELSE parts[1]
         IN match_route(<<p0>> \o Tail(parts), route)

\* ------------------------------------------------------- the counter table
\* self.data["counters"]: an insertion-ordered dict, kept as the sequence of
\* its items [name, count, aliases].
Names(cs) == {cs[i].name : i \in DOMAIN cs}

HasKey(cs, name) == name \in Names(cs)

Get(cs, name) == cs[CHOOSE i \in DOMAIN cs : cs[i].name = name]

\* counters[name] = {...}: in place for an existing key, appended otherwise
SetItem(cs, name, count, aliases) ==
    LET item == [name |-> name, count |-> count, aliases |-> aliases] IN
    IF HasKey(cs, name)
    THEN [i \in DOMAIN cs |-> IF cs[i].name = name THEN item ELSE cs[i]]
    ELSE Append(cs, item)

\* counters.pop(name, None)
Pop(cs, name) == SelectSeq(cs, LAMBDA c : c.name # name)

EmptyIndex == [k \in {} |-> <<>>]

\* as NameIndexOf, keyed by the names as typed
RECURSIVE NameIndexOf_unfolded(_)
NameIndexOf_unfolded(cs) ==
    IF cs = <<>> THEN EmptyIndex
    ELSE LET rest == NameIndexOf_unfolded(SubSeq(cs, 1, Len(cs) - 1))
             c == cs[Len(cs)]
         IN [k \in DOMAIN rest \cup {c.name} |-> IF k = c.name THEN c.name ELSE rest[k]]

RECURSIVE NameIndexOf(_)
\* _rebuild_index, the name index: a later item overwrites an earlier key
NameIndexOf(cs) ==
    IF cs = <<>> THEN EmptyIndex
    ELSE LET rest == NameIndexOf(SubSeq(cs, 1, Len(cs) - 1))
             c == cs[Len(cs)]
             n == norm(c.name)
         IN [k \in DOMAIN rest \cup {n} |-> IF k = n THEN c.name ELSE rest[k]]

RECURSIVE AddAliases(_, _, _)
\* the inner loop of _rebuild_index for one counter
AddAliases(idx, name, aliases) ==
    IF aliases = <<>> THEN idx
    ELSE LET na == norm(Head(aliases))
             nxt == IF na = <<>> \/ na = norm(name)
                    THEN idx
                    ELSE [k \in DOMAIN idx \cup {na} |->
                              IF k = na THEN name ELSE idx[k]]
         IN AddAliases(nxt, name, Tail(aliases))

RECURSIVE AliasIndexOf(_)
\* _rebuild_index, the alias index
AliasIndexOf(cs) ==
    IF cs = <<>> THEN EmptyIndex
    ELSE LET c == cs[Len(cs)]
         IN AddAliases(AliasIndexOf(SubSeq(cs, 1, Len(cs) - 1)), c.name, c.aliases)

\* ---------------------------------------------------------------- /cnt add
\* as alias_conflict, without the check against the alias index
alias_conflict_no_alias_check(na, a, n_name, ni, ai) ==
    IF na = <<>> \/ na = n_name
    THEN <<[kind |-> "alias_invalid", text |-> a]>>
    ELSE IF na \in DOMAIN ni
    THEN <<[kind |-> "alias_is_name", text |-> a]>>
    ELSE <<>>

\* one pass of the alias loop of _cnt_add: the entry it appends, if any
alias_conflict(na, a, n_name, ni, ai) ==
    IF na = <<>> \/ na = n_name
    THEN <<[kind |-> "alias_invalid", text |-> a]>>
    ELSE IF na \in DOMAIN ni
    THEN <<[kind |-> "alias_is_name", text |-> a]>>
    ELSE IF na \in DOMAIN ai
    THEN <<[kind |-> "alias_taken", text |-> a]>>
    ELSE <<>>

RECURSIVE alias_conflicts(_, _, _, _)
alias_conflicts(aliases, n_name, ni, ai) ==
    IF aliases = <<>> THEN <<>>
    ELSE alias_conflict(norm(Head(aliases)), Head(aliases), n_name, ni, ai)
         \o alias_conflicts(Tail(aliases), n_name, ni, ai)

\* as conflicts_of, stopping at the first conflict
conflicts_of_first_only(name, aliases, ni, ai) ==
    LET n_name == norm(name)
        all == (IF n_name \in DOMAIN ni \/ n_name \in DOMAIN ai
                THEN <<[kind |-> "name_taken", text |-> name]>>
                ELSE <<>>)
               \o alias_conflicts(aliases, n_name, ni, ai)
    IN IF all = <<>> THEN <<>> ELSE <<all[1]>>

\* as conflicts_of, validating the name only
conflicts_of_name_only(name, aliases, ni, ai) ==
    IF norm(name) \in DOMAIN ni \/ norm(name) \in DOMAIN ai
    THEN <<[kind |-> "name_taken", text |-> name]>>
    ELSE <<>>

\* as conflicts_of, validating the aliases only
conflicts_of_aliases_only(name, aliases, ni, ai) ==
    alias_conflicts(aliases, norm(name), ni, ai)

\* the conflict list _cnt_add builds under the lock
conflicts_of(name, aliases, ni, ai) ==
    LET n_name == norm(name) IN
    (IF n_name \in DOMAIN ni \/ n_name \in DOMAIN ai
     THEN <<[kind |-> "name_taken", text |-> name]>>
     ELSE <<>>)
    \o alias_conflicts(aliases, n_name, ni, ai)

\* name and aliases as _cnt_add reads them from its arguments
add_name(args) == args[1]
add_aliases(args) == SelectSeq(Tail(args), LAMBDA a : strip(a) # <<>>)

\* as add_write, with 1 for the default of a missing count
add_write_default_one(cs, name, aliases) ==
    SetItem(cs, name, IF HasKey(cs, name) THEN Get(cs, name).count ELSE 1, aliases)

\* the write of _cnt_add: the table after counters[name] = {...}
add_write(cs, name, aliases) ==
    SetItem(cs, name, IF HasKey(cs, name) THEN Get(cs, name).count ELSE 0, aliases)

\* ---------------------------------------------------------------- /cnt del
NotFound == [found |-> FALSE, true_name |-> <<>>]

\* as del_resolve, looking the key up among the names only
del_resolve_name_only(n_token, ni, ai) ==
    IF n_token \in DOMAIN ni THEN [found |-> TRUE, true_name |-> ni[n_token]]
    ELSE NotFound

\* the lookup of _cnt_del: alias index first, then name index
del_resolve(n_token, ni, ai) ==
    IF n_token \in DOMAIN ai THEN [found |-> TRUE, true_name |-> ai[n_token]]
    ELSE IF n_token \in DOMAIN ni THEN [found |-> TRUE, true_name |-> ni[n_token]]
    ELSE NotFound

\* --------------------------------------------------------- on_any_message
\* the pattern loop of on_any_message for one counter
is_hit(c, tnorm) ==
    LET patterns == <<c.name>> \o c.aliases IN
    \E i \in DOMAIN patterns :
        /\ patterns[i] # <<>>
        /\ norm(patterns[i]) # <<>>
        /\ Contains(norm(patterns[i]), tnorm)

\* as count_after, without the break: one increment for each pattern found
count_after_each_pattern(c, tnorm) ==
    LET patterns == <<c.name>> \o c.aliases IN
    c.count + Cardinality({i \in DOMAIN patterns :
                              patterns[i] # <<>> /\ Contains(norm(patterns[i]), tnorm)})

\* as count_after, counting from the default 0 instead of the stored count
count_after_from_default(c, tnorm) == IF is_hit(c, tnorm) THEN 0 + 1 ELSE c.count

\* the count the loop leaves in one counter
count_after(c, tnorm) == IF is_hit(c, tnorm) THEN c.count + 1 ELSE c.count

\* the table after the loop over all counters
apply_hits(cs, tnorm) ==
    [i \in DOMAIN cs |-> [cs[i] EXCEPT !.count = count_after(cs[i], tnorm)]]

\* as hits_of, with the append to hit_names left out
hits_of_forgotten(cs, tnorm) == <<>>

\* hit_names, in table order
hits_of(cs, tnorm) ==
    LET hit == SelectSeq(cs, LAMBDA c : is_hit(c, tnorm))
    IN [i \in DOMAIN hit |-> hit[i].name]

\* _get_special_message: the first group of group_map holding the count
special_group(count) ==
    IF count \in {114, 1145, 11451, 114514} THEN "A"
    ELSE IF count \in {1919, 19191, 191919} THEN "B"
    ELSE IF count \in {520, 1314} THEN "C"
    ELSE IF count \in {6, 66, 666, 6666} THEN "D"
    ELSE IF count \in {233, 2333, 23333} THEN "E"
    ELSE IF count \in {100, 1000, 10000, 100000} THEN "F"
    ELSE "none"

\* as increment_reply, looking only at the first hit
increment_reply_first_hit(cs, hits) ==
    LET count == Get(cs, hits[1]).count IN
    IF special_group(count) # "none"
    THEN [kind |-> "special", group |-> special_group(count),
          name |-> hits[1], count |-> count]
    ELSE IF Len(hits) = 1
    THEN [kind |-> "generic", name |-> hits[1], count |-> count]
    ELSE [kind |-> "summary",
          parts |-> [i \in DOMAIN hits |->
                        [name |-> hits[i], count |-> Get(cs, hits[i]).count]]]

\* the acknowledgement of on_any_message for a non-empty hit_names
increment_reply(cs, hits) ==
    IF Len(hits) = 1
    THEN LET count == Get(cs, hits[1]).count IN
         IF special_group(count) # "none"
         THEN [kind |-> "special", group |-> special_group(count),
               name |-> hits[1], count |-> count]
         ELSE [kind |-> "generic", name |-> hits[1], count |-> count]
    ELSE [kind |-> "summary",
          parts |-> [i \in DOMAIN hits |->
                        [name |-> hits[i], count |-> Get(cs, hits[i]).count]]]

\* --------------------------------------------------------------- /cnt list
RECURSIVE insert_desc(_, _)
\* stable insertion into a sequence sorted by count, descending
insert_desc(sorted, c) ==
    IF sorted = <<>> THEN <<c>>
    ELSE IF Head(sorted).count >= c.count
    THEN <<Head(sorted)>> \o insert_desc(Tail(sorted), c)
    ELSE <<c>> \o sorted

RECURSIVE sorted_desc(_)
\* sorted(counters.items(), key=count, reverse=True)
sorted_desc(cs) ==
    IF cs = <<>> THEN <<>>
    ELSE insert_desc(sorted_desc(SubSeq(cs, 1, Len(cs) - 1)), cs[Len(cs)])

list_reply(cs) ==
    IF cs = <<>> THEN [kind |-> "list_empty"]
    ELSE [kind |-> "list", lines |-> sorted_desc(cs)]

\* ------------------------------------------------------------------ events
Join(tokens) ==
    LET RECURSIVE J(_)
        J(ts) == IF ts = <<>> THEN <<>>
                 ELSE IF Len(ts) = 1 THEN ts[1]
                 ELSE ts[1] \o <<" ">> \o J(Tail(ts))
    IN J(tokens)

CNT == <<"c", "n", "t">>
SlashCnt == <<"/">> \o CNT
ADD == <<"a", "d", "d">>
DEL == <<"d", "e", "l">>
LIST == <<"l", "i", "s", "t">>

\* the counter names and the aliases users type
NameWords == {<<"a">>, <<"A">>, <<"b">>}
AliasWords == {<<"a">>, <<"A">>, <<"a", "b">>}

RECURSIVE SeqsUpTo(_, _)
SeqsUpTo(S, n) ==
    IF n = 0 THEN {<<>>}
    ELSE LET shorter == SeqsUpTo(S, n - 1)
         IN shorter \cup {Append(q, x) : q \in {r \in shorter : Len(r) = n - 1}, x \in S}

AddTexts ==
    {Join(<<SlashCnt, ADD, n>> \o al) : n \in NameWords, al \in SeqsUpTo(AliasWords, MaxAliases)}

DelTexts ==
    {Join(<<p, DEL, w>>) : p \in {SlashCnt, <<"C", "N", "T">>}, w \in NameWords \cup AliasWords}

OtherCmdTexts ==
    { SlashCnt,
      Join(<<SlashCnt, LIST>>),
      Join(<<SlashCnt, ADD>>),
      Join(<<SlashCnt, DEL>>),
      Join(<<SlashCnt, DEL, <<"a">>, <<"a", "b">> >>),
      Join(<<SlashCnt, <<"a">> >>),
      <<"a", "b">> }

MsgTexts ==
    { <<"a", "A">>,
      <<"a", "b">>,
      <<" ", "b", "a", "b">>,
      <<"b">>,
      <<" ">>,
      SlashCnt \o <<"a", "b">>,
      Join(<<SlashCnt, DEL, <<"a">> >>),
      Join(<<CNT, DEL, <<"a">> >>),
      Join(<<<<"/", "C", "N", "T">>, LIST, <<"a">> >>) }

\* what get_sender_id() == get_self_id() yields: equal, different, or the
\* AttributeError of a platform without these methods
Senders == {"bot", "user", "unknown"}

Event(h, text, sender) == [handler |-> h, message_str |-> text, sender |-> sender]

Events ==
    {Event("cnt", x, "user") : x \in AddTexts \cup DelTexts \cup OtherCmdTexts}
    \cup {Event("msg", x, s) : x \in MsgTexts, s \in Senders}
    \cup {Event("terminate", <<>>, "user")}

NoEvent == Event("none", <<>>, "user")
NoReply == [kind |-> "none"]
NoLock == "free"

\* ------------------------------------------------------- handler prologues
\* the dispatch of cnt(): the sub-command, or what it replies at once
cnt_sub(e) ==
    LET args == extract_args_after(e.message_str, <<CNT>>) IN
    IF args = <<>> THEN "usage"
    ELSE LET sub == norm(args[1]) IN
         IF sub = ADD THEN "add"
         ELSE IF sub = DEL THEN "del"
         ELSE IF sub = LIST THEN "list"
         ELSE "unknown"

add_args(e) == extract_args_after(e.message_str, <<CNT, ADD>>)
del_args(e) == extract_args_after(e.message_str, <<CNT, DEL>>)

\* as msg_ignored, without the check of the sender
msg_ignored_any_sender(e) ==
    \/ strip(e.message_str) = <<>>
    \/ startswith(strip(e.message_str), SlashCnt)

\* the early returns of on_any_message, before the lock
msg_ignored(e) ==
    \/ e.sender = "bot"
    \/ strip(e.message_str) = <<>>
    \/ startswith(strip(e.message_str), SlashCnt)

\* the operation a handler performs under the lock, or "none"
locked_op(e) ==
    IF e.handler = "cnt"
    THEN IF cnt_sub(e) = "add" /\ Len(add_args(e)) >= 1 THEN "add"
         ELSE IF cnt_sub(e) = "del" /\ Len(del_args(e)) = 1 THEN "del"
         ELSE "none"
    ELSE IF e.handler = "msg"
    THEN IF msg_ignored(e) THEN "none" ELSE "msg"
    ELSE "terminate"

\* the validation and write of _cnt_add under the lock
add_outcome(cs, ni, ai, name, aliases) ==
    LET cf == conflicts_of(name, aliases, ni, ai) IN
    [conflicts |-> cf,
     counters |-> IF cf # <<>> THEN cs ELSE add_write(cs, name, aliases)]

\* as del_outcome, taking an unresolved key for the name itself
del_outcome_key_as_name(cs, ni, ai, token) ==
    LET r == del_resolve(norm(token), ni, ai)
        true_name_ == IF r.found THEN r.true_name ELSE token
    IN [found |-> TRUE, true_name |-> true_name_, counters |-> Pop(cs, true_name_)]

\* the lookup and pop of _cnt_del under the lock
del_outcome(cs, ni, ai, token) ==
    LET r == del_resolve(norm(token), ni, ai) IN
    [found |-> r.found, true_name |-> r.true_name,
     counters |-> IF r.found THEN Pop(cs, r.true_name) ELSE cs]

\* ------------------------------------------------------------------- state
VARIABLES
    counters,             \* self.data["counters"]
    name_index,           \* self._name_index
    alias_index,          \* self._alias_index
    disk,                 \* the document in counters.json
    notify_on_increment,  \* self.notify_on_increment
    lock,                 \* self._lock: its holder, or NoLock
    waiters,              \* the handlers queued on the lock, in order
    pc,                   \* where each handler invocation stands
    ev,                   \* the event each invocation handles
    hit_names,            \* on_any_message's hit_names
    true_name,            \* _cnt_del's true_name
    reply                 \* the result a handler has yielded to the host

vars == <<counters, name_index, alias_index, disk, notify_on_increment,
          lock, waiters, pc, ev, hit_names, true_name, reply>>

table == <<counters, name_index, alias_index>>
locals == <<hit_names, true_name>>

\* __init__ and _load with no counters.json in the data directory
Init ==
    /\ counters = <<>>
    /\ name_index = EmptyIndex
    /\ alias_index = EmptyIndex
    /\ disk = [state |-> "absent", counters |-> <<>>]
    /\ notify_on_increment = TRUE
    /\ lock = NoLock
    /\ waiters = <<>>
    /\ pc = [t \in Tasks |-> "idle"]
    /\ ev = [t \in Tasks |-> NoEvent]
    /\ hit_names = [t \in Tasks |-> <<>>]
    /\ true_name = [t \in Tasks |-> <<>>]
    /\ reply = [t \in Tasks |-> NoReply]

\* invocations that have not yet run their matching loop
PendingMsgs == Cardinality({u \in Tasks : pc[u] = "waiting" /\ ev[u].handler = "msg"})

\* no message is delivered that could take a count past MaxCount
WithinBound(e) ==
    (e.handler = "msg" /\ ~msg_ignored(e)) =>
        /\ PendingMsgs < MaxCount
        /\ \A i \in DOMAIN counters : counters[i].count + PendingMsgs < MaxCount

\* The host calls a handler with an event.
Invoke(t, e) ==
    /\ pc[t] = "idle"
    /\ WithinBound(e)
    /\ pc' = [pc EXCEPT ![t] = "start"]
    /\ ev' = [ev EXCEPT ![t] = e]
    /\ UNCHANGED <<table, disk, notify_on_increment, lock, waiters, locals, reply>>

\* the handler returns (its generator is exhausted)
Return(t) ==
    /\ pc' = [pc EXCEPT ![t] = "returned"]
    /\ reply' = [reply EXCEPT ![t] = NoReply]
    /\ UNCHANGED <<ev, locals>>

\* the handler yields a result and is suspended at the yield
Yield(t, at, r) ==
    /\ pc' = [pc EXCEPT ![t] = at]
    /\ reply' = [reply EXCEPT ![t] = r]
    /\ UNCHANGED ev

\* the body of `async with self._lock` up to its first suspension
Critical(t) ==
    LET e == ev[t] op == locked_op(e) IN
    IF op = "add" THEN
        LET name == add_name(add_args(e))
            aliases == add_aliases(add_args(e))
            out == add_outcome(counters, name_index, alias_index, name, aliases)
        IN IF out.conflicts # <<>>
           THEN /\ Yield(t, "yield_locked", [kind |-> "add_failed", conflicts |-> out.conflicts])
                /\ lock' = t
                /\ UNCHANGED <<table, locals>>
           ELSE /\ counters' = out.counters
                /\ name_index' = NameIndexOf(out.counters)
                /\ alias_index' = AliasIndexOf(out.counters)
                /\ pc' = [pc EXCEPT ![t] = "saving"]
                /\ lock' = t
                /\ UNCHANGED <<ev, locals, reply>>
    ELSE IF op = "del" THEN
        LET token == del_args(e)[1]
            out == del_outcome(counters, name_index, alias_index, token)
        IN IF ~out.found
           THEN /\ Yield(t, "yield_locked", [kind |-> "del_not_found", token |-> token])
                /\ lock' = t
                /\ UNCHANGED <<table, locals>>
           ELSE /\ counters' = out.counters
                /\ name_index' = NameIndexOf(out.counters)
                /\ alias_index' = AliasIndexOf(out.counters)
                /\ true_name' = [true_name EXCEPT ![t] = out.true_name]
                /\ pc' = [pc EXCEPT ![t] = "saving"]
                /\ lock' = t
                /\ UNCHANGED <<ev, hit_names, reply>>
    ELSE IF op = "msg" THEN
        LET tnorm == norm(strip(e.message_str))
            hits == hits_of(counters, tnorm)
        IN /\ counters' = apply_hits(counters, tnorm)
           /\ UNCHANGED <<name_index, alias_index>>
           /\ IF hits # <<>>
              THEN /\ hit_names' = [hit_names EXCEPT ![t] = hits]
                   /\ pc' = [pc EXCEPT ![t] = "saving"]
                   /\ lock' = t
                   /\ UNCHANGED <<ev, true_name, reply>>
              ELSE \* nothing to save: the lock is released and nothing is replied
                   /\ Return(t)
                   /\ lock' = NoLock
    ELSE \* terminate
        /\ pc' = [pc EXCEPT ![t] = "saving"]
        /\ lock' = t
        /\ UNCHANGED <<table, ev, locals, reply>>

\* A started handler runs to its first suspension: an early return, a
\* result yielded without the lock, the wait for the lock, or the critical
\* section when the lock is free and nobody queues for it.
Run(t) ==
    /\ pc[t] = "start"
    /\ UNCHANGED <<disk, notify_on_increment>>
    /\ LET e == ev[t] IN
       IF locked_op(e) = "none"
       THEN /\ UNCHANGED <<table, lock, waiters>>
            /\ IF e.handler = "msg"
               THEN Return(t)
               ELSE /\ Yield(t, "yield",
                            IF cnt_sub(e) = "usage" THEN [kind |-> "usage"]
                            ELSE IF cnt_sub(e) = "add" THEN [kind |-> "usage_add"]
                            ELSE IF cnt_sub(e) = "del" THEN [kind |-> "usage_del"]
                            ELSE IF cnt_sub(e) = "list" THEN list_reply(counters)
                            ELSE [kind |-> "unknown_sub"])
                    /\ UNCHANGED locals
       ELSE IF lock = NoLock /\ waiters = <<>>
       THEN Critical(t) /\ UNCHANGED waiters
       ELSE /\ pc' = [pc EXCEPT ![t] = "waiting"]
            /\ waiters' = Append(waiters, t)
            /\ UNCHANGED <<table, lock, ev, locals, reply>>

\* the first waiter gets the released lock and enters the critical section
Acquire(t) ==
    /\ pc[t] = "waiting"
    /\ lock = NoLock
    /\ waiters # <<>> /\ Head(waiters) = t
    /\ waiters' = Tail(waiters)
    /\ Critical(t)
    /\ UNCHANGED <<disk, notify_on_increment>>

\* what a handler does once its save has returned and the lock is released
AfterSave(t) ==
    LET op == locked_op(ev[t]) IN
    IF op = "add"
    THEN /\ Yield(t, "yield", [kind |-> "add_ok",
                               name |-> add_name(add_args(ev[t])),
                               aliases |-> add_aliases(add_args(ev[t]))])
         /\ UNCHANGED locals
    ELSE IF op = "del"
    THEN /\ Yield(t, "yield", [kind |-> "del_ok", name |-> true_name[t]])
         /\ UNCHANGED locals
    ELSE IF op = "msg" /\ notify_on_increment
    THEN /\ Yield(t, "yield", increment_reply(counters, hit_names[t]))
         /\ UNCHANGED locals
    ELSE Return(t)

\* as SaveOk, with the file opened in append mode: the new document lands
\* behind the old one and the file no longer parses
SaveOk_append_mode(t) ==
    /\ pc[t] = "saving"
    /\ disk' = IF disk.state = "absent"
               THEN [state |-> "ok", counters |-> counters]
               ELSE [state |-> "corrupt", counters |-> <<>>]
    /\ lock' = NoLock
    /\ AfterSave(t)
    /\ UNCHANGED <<table, notify_on_increment, waiters>>

\* _save: the worker thread writes the whole table
SaveOk(t) ==
    /\ pc[t] = "saving"
    /\ disk' = [state |-> "ok", counters |-> counters]
    /\ lock' = NoLock
    /\ AfterSave(t)
    /\ UNCHANGED <<table, notify_on_increment, waiters>>

\* _save raises: mkdir or open failed (file untouched) or the write failed
\* after open("w") truncated the file. The exception leaves the `async
\* with`; terminate catches it, the other handlers let it reach the host.
SaveFail(t) ==
    /\ pc[t] = "saving"
    /\ \/ UNCHANGED disk
       \/ disk' = [state |-> "corrupt", counters |-> <<>>]
    /\ lock' = NoLock
    /\ IF locked_op(ev[t]) = "terminate"
       THEN Return(t)
       ELSE /\ pc' = [pc EXCEPT ![t] = "raised"]
            /\ UNCHANGED <<ev, locals, reply>>
    /\ UNCHANGED <<table, notify_on_increment, waiters>>

\* as Resume, for a generator that is dropped at its yield and never
\* leaves the `async with`
Resume_keeps_lock(t) ==
    /\ pc[t] \in {"yield", "yield_locked"}
    /\ UNCHANGED lock
    /\ Return(t)
    /\ UNCHANGED <<table, disk, notify_on_increment, waiters>>

\* the host takes the yielded result and resumes the generator, which ends;
\* a result yielded inside the `async with` releases the lock only now
Resume(t) ==
    /\ pc[t] \in {"yield", "yield_locked"}
    /\ lock' = IF pc[t] = "yield_locked" THEN NoLock ELSE lock
    /\ Return(t)
    /\ UNCHANGED <<table, disk, notify_on_increment, waiters>>

\* the host is done with a handler that returned or raised: the invocation
\* and its locals are gone
Reap(t) ==
    /\ pc[t] \in {"returned", "raised"}
    /\ pc' = [pc EXCEPT ![t] = "idle"]
    /\ ev' = [ev EXCEPT ![t] = NoEvent]
    /\ hit_names' = [hit_names EXCEPT ![t] = <<>>]
    /\ true_name' = [true_name EXCEPT ![t] = <<>>]
    /\ reply' = [reply EXCEPT ![t] = NoReply]
    /\ UNCHANGED <<table, disk, notify_on_increment, lock, waiters>>

\* Every interleaving of the handlers, with a disk that can fail.
FullNext ==
    \/ \E t \in Tasks, e \in Events : Invoke(t, e)
    \/ \E t \in Tasks : Run(t)
    \/ \E t \in Tasks : Acquire(t)
    \/ \E t \in Tasks : SaveOk(t)
    \/ \E t \in Tasks : SaveFail(t)
    \/ \E t \in Tasks : Resume(t)
    \/ \E t \in Tasks : Reap(t)

FullSpec == Init /\ [][FullNext]_vars

\* no other handler invocation is in flight
Alone(t) == \A u \in Tasks \ {t} : pc[u] = "idle"

InvokeAlone(t, e) == Alone(t) /\ Invoke(t, e)

\* The host delivers one event at a time and waits for its handler to end;
\* every save succeeds. One invocation slot is enough for that.
Next ==
    \/ \E e \in Events : InvokeAlone("h1", e)
    \/ Run("h1")
    \/ SaveOk("h1")
    \/ Resume("h1")
    \/ Reap("h1")

Spec == Init /\ [][Next]_vars

TypeOK ==
    /\ \A i \in DOMAIN counters : counters[i].count \in 0..MaxCount
    /\ lock \in Tasks \cup {NoLock}
    /\ \A t \in Tasks : pc[t] \in {"idle", "start", "waiting", "saving",
                                   "yield", "yield_locked", "returned", "raised"}
    /\ \A t \in Tasks : (lock = t) <=> (pc[t] \in {"saving", "yield_locked"})

\* ------------------------------------------------------------------ claims
\* vocabulary of the claims, read off the table rather than the indexes
Folded(c) == {casefold(c.name)} \cup {casefold(c.aliases[k]) : k \in DOMAIN c.aliases}

\* the case-folded name or an alias of c occurs in the case-folded text
OccursIn(c, text) == \E p \in Folded(c) : Contains(p, casefold(text))

\* key is the name or an alias of some counter of the table
Taken(key) == \E i \in DOMAIN counters : casefold(key) \in Folded(counters[i])

\* handler t runs the body of its `async with` in this step
Enters(t) == pc[t] \in {"start", "waiting"} /\ pc'[t] \notin {"start", "waiting"}

\* the first token, after stripping a leading '/', case-folds to 'cnt'
IsCntCommand(text) ==
    LET parts == split(text) IN
    /\ parts # <<>>
    /\ casefold(IF Head(parts[1]) = "/" THEN Tail(parts[1]) ELSE parts[1]) = CNT

\* C1: a message the matcher processes adds exactly 1 to every counter whose
\* case-folded name or alias occurs in the case-folded text, however many
\* patterns match and however often, and leaves the other counts alone.
C1_OneIncrementPerCounter ==
    [][\A t \in Tasks :
        (Enters(t) /\ ev[t].handler = "msg" /\ ~msg_ignored(ev[t])) =>
            /\ Len(counters') = Len(counters)
            /\ \A i \in DOMAIN counters :
                /\ counters'[i].name = counters[i].name
                /\ counters'[i].aliases = counters[i].aliases
                /\ counters'[i].count =
                       counters[i].count
                       + (IF OccursIn(counters[i], ev[t].message_str) THEN 1 ELSE 0)]_vars

\* a processed message in which both the name and an alias of one counter
\* occur, or the name occurs twice, after its increment
C1_Witness ==
    \E t \in Tasks :
        /\ pc[t] = "saving" /\ ev[t].handler = "msg"
        /\ \E i \in DOMAIN counters :
            /\ counters[i].count = 1
            /\ OccursIn(counters[i], ev[t].message_str)
            /\ \/ /\ counters[i].aliases # <<>>
                  /\ \A p \in Folded(counters[i]) : Contains(p, casefold(ev[t].message_str))
               \/ ev[t].message_str = <<"a", "A">>

\* C2: an add of an existing name with only new, colliding-with-nothing
\* aliases succeeds, keeps the count and unions the aliases.
C2_ReAddMergesAliases ==
    [][\A t \in Tasks :
        (Enters(t) /\ locked_op(ev[t]) = "add") =>
            LET name == add_name(add_args(ev[t]))
                aliases == add_aliases(add_args(ev[t]))
            IN (/\ HasKey(counters, name)
                /\ aliases # <<>>
                /\ \A k \in DOMAIN aliases : ~Taken(aliases[k]))
               => /\ pc'[t] = "saving"
                  /\ HasKey(counters', name)
                  /\ Get(counters', name).count = Get(counters, name).count
                  /\ \A a \in {aliases[k] : k \in DOMAIN aliases}
                            \cup {Get(counters, name).aliases[k] :
                                     k \in DOMAIN Get(counters, name).aliases} :
                        casefold(a) \in Folded(Get(counters', name))]_vars

\* C3: a del addressed by the name or by an alias of a counter removes that
\* counter alone, and frees its name and aliases: none of them is left in
\* the table or the indexes, an add of the same name and aliases finds no
\* conflict, and no message hits the name any more.
C3_DelFreesNameAndAliases ==
    [][\A t \in Tasks :
        (Enters(t) /\ locked_op(ev[t]) = "del") =>
            \A i \in DOMAIN counters :
                casefold(del_args(ev[t])[1]) \in Folded(counters[i]) =>
                    LET c == counters[i] IN
                    /\ pc'[t] = "saving"
                    /\ counters' = SelectSeq(counters, LAMBDA d : d # c)
                    /\ Len(counters') = Len(counters) - 1
                    /\ \A k \in Folded(c) :
                        /\ k \notin DOMAIN name_index' \cup DOMAIN alias_index'
                        /\ \A j \in DOMAIN counters' : k \notin Folded(counters'[j])
                    /\ conflicts_of(c.name, c.aliases, name_index', alias_index') = <<>>
                    /\ \A x \in MsgTexts : \A h \in DOMAIN hits_of(counters', norm(x)) :
                        hits_of(counters', norm(x))[h] # c.name]_vars

\* a del addressed by an alias of counter b, typed in upper case, has
\* removed b
C3_Witness ==
    \E t \in Tasks :
        /\ pc[t] = "saving" /\ locked_op(ev[t]) = "del"
        /\ del_args(ev[t])[1] = <<"A">>
        /\ true_name[t] = <<"b">>
        /\ ~HasKey(counters, <<"b">>)

\* C4: names are pairwise distinct case-insensitively, no alias folds to a
\* name, and no alias folds to an alias of another counter.
C4_Uniqueness ==
    \A i, j \in DOMAIN counters :
        /\ i # j => casefold(counters[i].name) # casefold(counters[j].name)
        /\ \A k \in DOMAIN counters[i].aliases :
            /\ casefold(counters[i].aliases[k]) # casefold(counters[j].name)
            /\ i # j => \A l \in DOMAIN counters[j].aliases :
                   casefold(counters[i].aliases[k]) # casefold(counters[j].aliases[l])

\* an add of a free name is refused for one reason only: its alias belongs
\* to the counter in the table
C4_Witness ==
    \E t \in Tasks :
        /\ pc[t] = "yield_locked"
        /\ reply[t].kind = "add_failed"
        /\ Len(reply[t].conflicts) = 1
        /\ reply[t].conflicts[1].kind = "alias_taken"
        /\ Len(counters) = 1
        /\ ~Taken(add_name(add_args(ev[t])))

\* an add the claims call conflicting: its name is taken, or one of its
\* aliases is empty, equals the name or is taken
BadAlias(name, a) == a = <<>> \/ casefold(a) = casefold(name) \/ Taken(a)

HasConflict(name, aliases) ==
    Taken(name) \/ \E k \in DOMAIN aliases : BadAlias(name, aliases[k])

\* C5: an add with at least one conflict changes neither the table, nor the
\* indexes, nor the document on disk, and goes on to its reply and its end
\* without a save.
C5_ConflictAbortsAdd ==
    [][\A t \in Tasks :
        /\ (Enters(t) /\ locked_op(ev[t]) = "add"
            /\ HasConflict(add_name(add_args(ev[t])), add_aliases(add_args(ev[t]))))
           => /\ UNCHANGED <<counters, name_index, alias_index, disk>>
              /\ pc'[t] = "yield_locked"
              /\ reply'[t].kind = "add_failed"
        /\ (pc[t] = "yield_locked" /\ reply[t].kind = "add_failed" /\ pc'[t] # pc[t])
           => /\ UNCHANGED <<counters, name_index, alias_index, disk>>
              /\ pc'[t] = "returned"]_vars

\* a refused add that also supplied an alias nothing was wrong with
C5_Witness ==
    \E t \in Tasks :
        /\ pc[t] = "returned" /\ locked_op(ev[t]) = "add"
        /\ LET name == add_name(add_args(ev[t]))
               aliases == add_aliases(add_args(ev[t]))
           IN /\ HasConflict(name, aliases)
              /\ \E k \in DOMAIN aliases : ~BadAlias(name, aliases[k])
        /\ counters # <<>>

\* C6: the report of a refused add has one entry for the name if the name
\* is taken, then one entry for each alias that is invalid or taken, in the
\* order of the command.
C6_AllConflictsReported ==
    \A t \in Tasks :
        (pc[t] = "yield_locked" /\ reply[t].kind = "add_failed") =>
            LET name == add_name(add_args(ev[t]))
                aliases == add_aliases(add_args(ev[t]))
                expected ==
                    (IF Taken(name) THEN <<name>> ELSE <<>>)
                    \o SelectSeq(aliases, LAMBDA a : BadAlias(name, a))
                got == reply[t].conflicts
            IN /\ [k \in DOMAIN got |-> got[k].text] = expected
               /\ \A k \in DOMAIN got :
                      (got[k].kind = "name_taken") <=> (k = 1 /\ Taken(name))

\* a report with three entries: the name and two aliases that collide with
\* a name and with an alias already in the table
C6_Witness ==
    \E t \in Tasks :
        /\ pc[t] = "yield_locked" /\ reply[t].kind = "add_failed"
        /\ [k \in DOMAIN reply[t].conflicts |-> reply[t].conflicts[k].kind]
               = <<"name_taken", "alias_is_name", "alias_taken">>

\* C7: a del whose key is in neither index reports not-found, changes
\* neither the table, nor the indexes, nor the document on disk, and ends
\* without a save.
C7_DelNotFoundChangesNothing ==
    [][\A t \in Tasks :
        /\ (Enters(t) /\ locked_op(ev[t]) = "del"
            /\ norm(del_args(ev[t])[1]) \notin DOMAIN alias_index \cup DOMAIN name_index)
           => /\ UNCHANGED <<counters, name_index, alias_index, disk>>
              /\ pc'[t] = "yield_locked"
              /\ reply'[t].kind = "del_not_found"
        /\ (pc[t] = "yield_locked" /\ reply[t].kind = "del_not_found" /\ pc'[t] # pc[t])
           => /\ UNCHANGED <<counters, name_index, alias_index, disk>>
              /\ pc'[t] = "returned"]_vars

\* a del of an unknown key has ended while the table holds a counter
C7_Witness ==
    \E t \in Tasks :
        /\ pc[t] = "returned" /\ locked_op(ev[t]) = "del"
        /\ ~Taken(del_args(ev[t])[1])
        /\ counters # <<>>
        /\ disk.counters = counters

\* C8: on_any_message increments no counter for a text the command parser
\* accepts as a cnt command.
C8_CommandsNeverCounted ==
    [][\A t \in Tasks :
        (pc[t] = "start" /\ ev[t].handler = "msg" /\ IsCntCommand(ev[t].message_str))
            => counters' = counters]_vars

\* C9: a message sent by the bot itself changes no counter and no index,
\* leaves the document on disk alone and ends without a save.
C9_OwnMessagesIgnored ==
    [][\A t \in Tasks :
        (pc[t] = "start" /\ ev[t].handler = "msg" /\ ev[t].sender = "bot" /\ pc'[t] # "start")
            => /\ UNCHANGED <<counters, name_index, alias_index, disk>>
               /\ pc'[t] = "returned"]_vars

\* a message of the bot in which a registered name occurs has been handled
C9_Witness ==
    \E t \in Tasks :
        /\ pc[t] = "returned" /\ ev[t].handler = "msg" /\ ev[t].sender = "bot"
        /\ ~IsCntCommand(ev[t].message_str)
        /\ \E i \in DOMAIN counters : OccursIn(counters[i], ev[t].message_str)

\* C10: with notify_on_increment as the constructor leaves it, a message
\* that increments counters gets no reply.
C10_SilentByDefault ==
    \A t \in Tasks : (ev[t].handler = "msg" /\ hit_names[t] # <<>>) => pc[t] # "yield"

\* ------------------------------------------- handlers in flight together
\* _load: the table read from the document at startup; a missing or
\* unparsable file gives the empty table
load(d) == IF d.state = "ok" THEN d.counters ELSE <<>>

Item(name, count, aliases) == [name |-> name, count |-> count, aliases |-> aliases]

Document(cs) == [state |-> "ok", counters |-> cs]

\* the documents counters.json can hold at startup: none, or one an
\* earlier run has written
StartDisks ==
    { [state |-> "absent", counters |-> <<>>],
      Document(<<Item(<<"a">>, 99, << <<"a", "b">> >>)>>),
      Document(<<Item(<<"a">>, 99, <<>>), Item(<<"b">>, 5, <<>>)>>),
      Document(<<Item(<<"A">>, 114513, <<>>)>>) }

\* the count each name has in those documents
StartCount(name) ==
    CASE name = <<"a">> -> 99
      [] name = <<"b">> -> 5
      [] name = <<"A">> -> 114513

\* __init__ and _load with any of these documents in the data directory
LoadedInit ==
    /\ disk \in StartDisks
    /\ counters = load(disk)
    /\ name_index = NameIndexOf(load(disk))
    /\ alias_index = AliasIndexOf(load(disk))
    /\ notify_on_increment = TRUE
    /\ lock = NoLock
    /\ waiters = <<>>
    /\ pc = [t \in Tasks |-> "idle"]
    /\ ev = [t \in Tasks |-> NoEvent]
    /\ hit_names = [t \in Tasks |-> <<>>]
    /\ true_name = [t \in Tasks |-> <<>>]
    /\ reply = [t \in Tasks |-> NoReply]

\* the events delivered while another handler may be in flight
RaceEvents ==
    {Event("cnt", x, "user") :
        x \in { Join(<<SlashCnt, ADD, <<"a">> >>),
                Join(<<SlashCnt, ADD, <<"A">>, <<"a", "b">> >>),
                Join(<<SlashCnt, ADD, <<"b">>, <<"a">> >>),
                Join(<<SlashCnt, DEL, <<"a", "b">> >>),
                Join(<<SlashCnt, DEL, <<"A">> >>),
                Join(<<SlashCnt, LIST>>) }}
    \cup {Event("msg", x, "user") : x \in {<<"a", "A">>, <<"a", "b">>, <<"b">>}}
    \cup {Event("msg", <<"a", "b">>, "bot"), Event("terminate", <<>>, "user")}

\* The host calls a handler with an event; each invocation slot is used
\* once, so what a handler did stays visible after it has ended.
InvokeOnce(t, e) ==
    /\ pc[t] = "idle"
    /\ ev[t] = NoEvent
    /\ \A u \in Tasks : pc[u] # "start"
    /\ pc' = [pc EXCEPT ![t] = "start"]
    /\ ev' = [ev EXCEPT ![t] = e]
    /\ UNCHANGED <<table, disk, notify_on_increment, lock, waiters, locals, reply>>

\* Every interleaving of one handler per slot, with a disk that can fail.
RaceNext ==
    \/ \E t \in Tasks, e \in RaceEvents : InvokeOnce(t, e)
    \/ \E t \in Tasks : Run(t)
    \/ \E t \in Tasks : Acquire(t)
    \/ \E t \in Tasks : SaveOk(t)
    \/ \E t \in Tasks : SaveFail(t)
    \/ \E t \in Tasks : Resume(t)

RaceSpec == LoadedInit /\ [][RaceNext]_vars

\* handler t has run the body of its `async with`
PastCritical(t) == pc[t] \in {"saving", "yield_locked", "yield", "returned", "raised"}

\* C11: whenever the lock is free and no save has failed, the document on
\* disk holds exactly the table in memory (no document: the empty table).
C11_DiskFollowsMemory ==
    (/\ lock = NoLock
     /\ \A t \in Tasks : pc[t] # "raised"
     /\ disk.state # "corrupt")
    => load(disk) = counters

\* a del and a counting message have both been saved and answered
C11_Witness ==
    /\ lock = NoLock
    /\ disk.state = "ok"
    /\ \A t \in Tasks : pc[t] # "raised"
    /\ \E t, u \in Tasks :
        /\ pc[t] = "yield" /\ reply[t].kind = "del_ok"
        /\ pc[u] \in {"yield", "returned"} /\ ev[u].handler = "msg" /\ hit_names[u] # <<>>

\* C12: a disk write that fails during add, del or a batch increment is
\* caught inside the plugin: no handler ends with an exception at the host.
C12_SaveFailuresCaught == \A t \in Tasks : pc[t] # "raised"

\* the milestone table of the specification, in table order
Milestones ==
    << [values |-> {114, 1145, 11451, 114514}, message |-> "A"],
       [values |-> {1919, 19191, 191919}, message |-> "B"],
       [values |-> {520, 1314}, message |-> "C"],
       [values |-> {6, 66, 666, 6666}, message |-> "D"],
       [values |-> {233, 2333, 23333}, message |-> "E"],
       [values |-> {100, 1000, 10000, 100000}, message |-> "F"] >>

IsMilestone(n) == \E k \in DOMAIN Milestones : n \in Milestones[k].values

\* the message of the first set of the table that holds n
FirstMilestone(n) ==
    Milestones[CHOOSE k \in DOMAIN Milestones :
                  /\ n \in Milestones[k].values
                  /\ \A j \in 1..(k - 1) : n \notin Milestones[j].values].message

\* C13: the acknowledgement a message handler yields after its save: for
\* one hit whose new count is a milestone, the themed message of the first
\* set holding the count (114514: A, 100: F); for one hit otherwise, the
\* generic count line; for two or more hits, the summary of all hits with
\* their counts, themed or not.
C13_Acknowledgement ==
    [][\A t \in Tasks :
        (pc[t] = "saving" /\ ev[t].handler = "msg" /\ pc'[t] \notin {"saving", "raised"}) =>
            LET hits == hit_names[t]
                r == reply'[t]
            IN /\ pc'[t] = "yield"
               /\ hits # <<>>
               /\ Len(hits) = 1 =>
                    LET n == Get(counters, hits[1]).count IN
                    /\ r.name = hits[1] /\ r.count = n
                    /\ IsMilestone(n) => (r.kind = "special" /\ r.group = FirstMilestone(n))
                    /\ ~IsMilestone(n) => r.kind = "generic"
                    /\ n = 114514 => r.group = "A"
                    /\ n = 100 => r.group = "F"
               /\ Len(hits) >= 2 =>
                    /\ r.kind = "summary"
                    /\ r.parts = [i \in DOMAIN hits |->
                                     [name |-> hits[i], count |-> Get(counters, hits[i]).count]]]_vars

\* message F for a single hit reaching 100 next to a summary for two hits,
\* one of which reached the milestone 6
C13_Witness ==
    \E t, u \in Tasks :
        /\ pc[t] = "yield" /\ reply[t].kind = "special"
        /\ reply[t].group = "F" /\ reply[t].count = 100
        /\ pc[u] = "yield" /\ reply[u].kind = "summary"
        /\ \E k \in DOMAIN reply[u].parts : reply[u].parts[k].count = 6

\* the message handlers that have run their matching loop on a text in
\* which counter c occurs
Matched(c) ==
    {t \in Tasks : /\ ev[t].handler = "msg" /\ ev[t].sender # "bot"
                   /\ PastCritical(t)
                   /\ OccursIn(c, ev[t].message_str)}

\* C14: while only message handlers (and terminate) run, in any
\* interleaving and with saves suspended or failing inside the critical
\* section, every counter's count is its initial count plus the number of
\* handlers that matched it: no increment is lost.
C14_NoLostIncrement ==
    (\A t \in Tasks : ev[t].handler \in {"msg", "terminate", "none"}) =>
        \A i \in DOMAIN counters :
            counters[i].count = StartCount(counters[i].name) + Cardinality(Matched(counters[i]))

\* two handlers that both matched one counter have finished, the second
\* after queueing for the lock or after the first one's save
C14_Witness ==
    /\ \A t \in Tasks : ev[t].handler = "msg" /\ pc[t] \in {"yield", "returned", "raised"}
    /\ \E i \in DOMAIN counters :
        /\ Cardinality(Matched(counters[i])) = 2
        /\ counters[i].count = StartCount(counters[i].name) + 2

\* the case-folded name and aliases an add command asks for
AddKeys(e) ==
    {casefold(add_name(add_args(e)))}
    \cup {casefold(add_aliases(add_args(e))[k]) : k \in DOMAIN add_aliases(add_args(e))}

\* the add of handler u has written its counter and u is still in flight
AddWritten(u) ==
    /\ locked_op(ev[u]) = "add"
    /\ pc[u] \in {"saving", "yield", "raised"}

\* C15: of two add commands in flight together whose names or aliases
\* collide case-insensitively, the one that enters the critical section
\* after the other has written is refused with a conflict report and writes
\* nothing, and the uniqueness of names and aliases holds in every state.
C15_RacingAddsExclude ==
    /\ []C4_Uniqueness
    /\ [][\A t, u \in Tasks :
            (/\ t # u
             /\ Enters(t) /\ locked_op(ev[t]) = "add"
             /\ AddWritten(u)
             /\ AddKeys(ev[t]) \cap AddKeys(ev[u]) # {})
            => /\ pc'[t] = "yield_locked"
               /\ reply'[t].kind = "add_failed"
               /\ UNCHANGED <<counters, name_index, alias_index>>]_vars

\* an add is refused while the colliding add that won is still in flight
C15_Witness ==
    \E t, u \in Tasks :
        /\ t # u
        /\ pc[t] = "yield_locked" /\ reply[t].kind = "add_failed"
        /\ AddWritten(u) /\ pc[u] # "saving"
        /\ AddKeys(ev[t]) \cap AddKeys(ev[u]) # {}
        /\ add_name(add_args(ev[t])) # add_name(add_args(ev[u]))

\* C16: in every state, a save in flight included, the name index maps
\* exactly the case-folded name of each counter to its name, and the alias
\* index maps exactly the case-folded aliases of each counter to the name
\* of their owner.
C16_IndexesDerived ==
    /\ DOMAIN name_index = {casefold(counters[i].name) : i \in DOMAIN counters}
    /\ \A i \in DOMAIN counters : name_index[casefold(counters[i].name)] = counters[i].name
    /\ DOMAIN alias_index =
           UNION {{casefold(counters[i].aliases[k]) : k \in DOMAIN counters[i].aliases} :
                     i \in DOMAIN counters}
    /\ \A i \in DOMAIN counters : \A k \in DOMAIN counters[i].aliases :
           alias_index[casefold(counters[i].aliases[k])] = counters[i].name

\* the save of a del is in flight, another handler queues on the lock, and
\* the indexes have no entry left for the deleted counter or for the key
\* the del was addressed by
C16_Witness ==
    \E t, u \in Tasks :
        /\ pc[t] = "saving" /\ locked_op(ev[t]) = "del"
        /\ pc[u] = "waiting"
        /\ casefold(true_name[t]) \notin DOMAIN name_index
        /\ casefold(del_args(ev[t])[1]) \notin DOMAIN alias_index \cup DOMAIN name_index

\* C17: a save that raises leaves the table and the indexes as the
\* mutation made them; a save that returns leaves on disk the whole table
\* of that moment, whatever earlier saves did to the file (for terminate,
\* which swallows the exception: a file it has rewritten readably holds the
\* whole table).
C17_FailedSaveRepaired ==
    [][\A t \in Tasks :
        /\ (pc[t] = "saving" /\ pc'[t] = "raised")
           => /\ UNCHANGED <<counters, name_index, alias_index>>
              /\ locked_op(ev[t]) = "add" => HasKey(counters', add_name(add_args(ev[t])))
              /\ locked_op(ev[t]) = "del" => ~HasKey(counters', true_name[t])
        /\ (pc[t] = "saving" /\ pc'[t] \in {"yield", "returned"}
            /\ locked_op(ev[t]) # "terminate")
           => /\ disk' = Document(counters')
              /\ load(disk') = counters'
              /\ counters' = counters
        /\ (pc[t] = "saving" /\ pc'[t] = "returned" /\ locked_op(ev[t]) = "terminate"
            /\ disk' # disk /\ disk'.state = "ok")
           => /\ disk'.counters = counters'
              /\ counters' = counters]_vars

\* an add whose save raised is on disk after all: a later save has written
\* the table, the added counter included
C17_Witness ==
    \E t, u \in Tasks :
        /\ pc[t] = "raised" /\ locked_op(ev[t]) = "add"
        /\ pc[u] \in {"yield", "returned"}
        /\ disk.state = "ok"
        /\ HasKey(disk.counters, add_name(add_args(ev[t])))
        /\ disk.counters = counters

\* handler t runs the matching loop in this step on a text c occurs in
Matching(t, c) ==
    /\ Enters(t) /\ ev[t].handler = "msg" /\ ~msg_ignored(ev[t])
    /\ OccursIn(c, ev[t].message_str)

\* C18: counts are natural numbers; a counter that appears starts at 0 and
\* is put there by an add; a counter that stays under its name never
\* loses count, gains exactly 1 and only in the step of a message that
\* matches it, and keeps count and aliases in the step of a message that
\* does not match it.
C18_CountsChangeByMatchesOnly ==
    /\ [](\A i \in DOMAIN counters : counters[i].count \in Nat)
    /\ [][\A j \in DOMAIN counters' :
            LET d == counters'[j] IN
            IF HasKey(counters, d.name)
            THEN LET c == Get(counters, d.name) IN
                 /\ d.count >= c.count
                 /\ d.count # c.count =>
                        /\ d.count = c.count + 1
                        /\ \E t \in Tasks : Matching(t, c)
                 /\ \A t \in Tasks :
                        (Enters(t) /\ ev[t].handler = "msg" /\ ~Matching(t, c)) => d = c
            ELSE /\ d.count = 0
                 /\ \E t \in Tasks : Enters(t) /\ locked_op(ev[t]) = "add"
                                        /\ add_name(add_args(ev[t])) = d.name]_vars

\* an add has just put a new counter at 0 next to one that keeps its 2
C18_Witness ==
    \E t \in Tasks :
        /\ pc[t] = "saving" /\ locked_op(ev[t]) = "add"
        /\ Get(counters, add_name(add_args(ev[t]))).count = 0
        /\ \E i \in DOMAIN counters : counters[i].count = 2

\* C19: no counter's alias list holds two entries equal case-insensitively.
C19_AliasesFormSet ==
    \A i \in DOMAIN counters : \A k, l \in DOMAIN counters[i].aliases :
        k # l => casefold(counters[i].aliases[k]) # casefold(counters[i].aliases[l])

\* handler t can take a step: it was called, it is first in the queue of
\* a free lock, its write is with the worker thread, or it is suspended at
\* a yield
Ready(t) ==
    \/ pc[t] \in {"start", "saving", "yield", "yield_locked"}
    \/ pc[t] = "waiting" /\ lock = NoLock /\ waiters # <<>> /\ Head(waiters) = t

PcValues == {"idle", "start", "waiting", "saving", "yield", "yield_locked", "returned", "raised"}

\* a step of handler t, told by what it does to pc: Run(t), Acquire(t),
\* SaveOk(t), SaveFail(t) and Resume(t) are the steps of RaceNext that
\* move pc[t] when Ready(t)
Advance(t) ==
    /\ Ready(t)
    /\ \E p \in PcValues \ {pc[t]} : pc' = [pc EXCEPT ![t] = p]

\* The event loop runs every handler that is ready, the worker thread ends
\* every write, with or without an error, and the host resumes every
\* generator it iterates.
RaceFairness == \A t \in Tasks : WF_pc(Advance(t))

FairRaceSpec == RaceSpec /\ RaceFairness

\* C20: the lock is held only by a handler inside its `async with`; every
\* handler that holds it lets it go, on the conflict and not-found returns
\* and on a save that raises as well; every handler that queues for it
\* gets it (Acquire is its only step out of the queue).
C20_LockAlwaysReleased ==
    /\ [](\A t \in Tasks : lock = t => pc[t] \in {"saving", "yield_locked"})
    /\ \A t \in Tasks : (lock = t) ~> (lock # t)
    /\ \A t \in Tasks : (pc[t] = "waiting") ~> (pc[t] # "waiting")

\* a handler queues for the lock while the holder is suspended at the
\* yield of its conflict or not-found return
C20_Witness ==
    \E t, u \in Tasks :
        /\ pc[t] = "waiting" /\ waiters = <<t>>
        /\ lock = u /\ pc[u] = "yield_locked"

====
